---- MODULE Spec2Model ----
(***************************************************************************)
(* Readiness state machine of the App component (src/src/main.tsx).        *)
(*                                                                         *)
(* One effect run ("start") arms the forceShowUI timer, calls init() and   *)
(* arms the polling interval; its cleanup clears the interval only.  The   *)
(* effect runs on mount and may run again while the component is mounted   *)
(* (the cleanup of the previous run runs first); unmounting runs the last  *)
(* cleanup.                                                                *)
(* Time is kept as the remaining delay of every armed timer.  A timer      *)
(* whose remaining delay is 0 is due, and time does not advance past a due *)
(* timer (event loop: a due timer callback runs before later ones).        *)
(* A promise continuation runs in the microtask queue of the task that     *)
(* settles the promise, so a settlement and the code that awaited it form  *)
(* one step.                                                               *)
(***************************************************************************)
EXTENDS Integers, FiniteSets, Sequences, TLC

\* Bounds of the model ----------------------------------------------------
MaxRuns == 2        \* effect runs (mount, then re-runs after a cleanup)
MaxInflight == 1    \* unsettled checkNexusStatus calls per call site that
                    \* are counted one by one

\* Program constants (milliseconds) ----------------------------------------
ForceShowUIDelay == 3000
StatusTimeoutDelay == 2000
PollIntervalDelay == 10000

Runs == 1..MaxRuns

\* Time advances in steps of 1000 ms.
TickSteps == {1000}

\* Values of backend.status in the store.
BackendStatusValues == {"unknown", "connected", "disconnected", "error"}

\* Ways one checkNexusStatus() call can settle: the query succeeded, the
\* query failed and the store swallowed the failure, or the query failed
\* and the returned promise rejected.
CheckOutcomes == {"ok", "failed", "rejected"}

VARIABLES
    rootElement,     \* document.getElementById('root') found an element
    bootPc,          \* main.tsx: "load" before it ran, "done" after
    renders,         \* calls of ReactDOM.createRoot(rootElement).render
    rootErrors,      \* 'Root element not found!' errors logged
    tauri,           \* window.__TAURI__ is present
    isInitializing,  \* useState(true)
    backendStatus,   \* backend.status of the store
    nRuns,           \* effect runs started so far
    mounted,         \* the effect run whose cleanup has not run yet, or 0
                     \* (before the mount and after the unmount)
    forceShowUI,     \* per run: the 3000 ms timer  [state, rem]
    initPc,          \* per run: where init() is
    regResult,       \* per run: how initializeTauriListeners() ended
    statusPromise,   \* per run: the status check issued by init()
    timeoutPromise,  \* per run: the 2000 ms timer  [state, rem]
    interval,        \* per run: the 10000 ms interval  [state, rem]
    pollPending,     \* unsettled checks invoked by the interval callback;
                     \* the value MaxInflight stands for MaxInflight or more
    retryPending,    \* unsettled checks invoked by the Retry button; the
                     \* value MaxInflight stands for MaxInflight or more
    unhandled        \* call sites whose rejection the last task left unhandled

bootVars == <<rootElement, bootPc, renders, rootErrors>>

vars == <<rootElement, bootPc, renders, rootErrors, tauri, isInitializing, backendStatus, nRuns, mounted, forceShowUI,
          initPc, regResult, statusPromise, timeoutPromise, interval, pollPending,
          retryPending, unhandled>>

\* A timer handle: "pending" with the delay that remains, or "off" (never
\* armed, fired, or cleared).
Timer(s, r) == [state |-> s, rem |-> r]

Init ==
    /\ rootElement \in BOOLEAN
    /\ bootPc = "load"
    /\ renders = 0
    /\ rootErrors = 0
    /\ tauri \in BOOLEAN
    /\ isInitializing = TRUE
    /\ backendStatus = "unknown"
    /\ nRuns = 0
    /\ mounted = 0
    /\ forceShowUI = [k \in Runs |-> Timer("off", 0)]
    /\ initPc = [k \in Runs |-> "idle"]
    /\ regResult = [k \in Runs |-> "none"]
    /\ statusPromise = [k \in Runs |-> "none"]
    /\ timeoutPromise = [k \in Runs |-> Timer("off", 0)]
    /\ interval = [k \in Runs |-> Timer("off", 0)]
    /\ pollPending = 0
    /\ retryPending = 0
    /\ unhandled = {}

\* clearTimeout / clearInterval: the timer is off afterwards, whether it was
\* pending, had fired or had been cleared before.
ClearTimer(t) == Timer("off", 0)

\* backend.status after a check settled with outcome o; a failure leaves
\* one of the two degraded values.
StatusAfter(o) ==
    IF o = "ok" THEN {"connected"} ELSE {"disconnected", "error"}

\* One more unsettled checkNexusStatus() call at a call site.  The code
\* puts no limit on them; a count of MaxInflight stands for MaxInflight or
\* more, and stays what it is.
AddInflight(n) == IF n < MaxInflight THEN n + 1 ELSE n

\* The counts that can follow when one of n > 0 unsettled calls settles:
\* one fewer, or, when n stands for MaxInflight or more, still that.
DropInflight(n) == IF n < MaxInflight THEN {n - 1} ELSE {n - 1, n}

\* A timer that is armed and has not fired or been cleared.
Pending(t) == t.state = "pending"

\* A pending timer whose delay has elapsed: its callback is the next to run.
Due(t) == Pending(t) /\ t.rem = 0

AllTimers ==
    {forceShowUI[k] : k \in Runs} \cup {timeoutPromise[k] : k \in Runs}
        \cup {interval[k] : k \in Runs}

\* d milliseconds pass for timer t.
Elapse(t, d) == IF Pending(t) THEN Timer("pending", t.rem - d) ELSE t

\* The bootstrap rendering the UI tree without looking at the root element.
BootstrapNoCheck ==
    /\ bootPc = "load"
    /\ bootPc' = "done"
    /\ renders' = renders + 1
    /\ rootErrors' = rootErrors
    /\ unhandled' = {}
    /\ UNCHANGED <<rootElement, tauri, isInitializing, backendStatus, nRuns,
                   mounted, forceShowUI, initPc, regResult, statusPromise,
                   timeoutPromise, interval, pollPending, retryPending>>

\* main.tsx: look up the root element; render <App /> into it if it is
\* there, else log an error and do nothing more.
Bootstrap ==
    /\ bootPc = "load"
    /\ bootPc' = "done"
    /\ IF rootElement
       THEN renders' = renders + 1 /\ rootErrors' = rootErrors
       ELSE renders' = renders /\ rootErrors' = rootErrors + 1
    /\ unhandled' = {}
    /\ UNCHANGED <<rootElement, tauri, isInitializing, backendStatus, nRuns,
                   mounted, forceShowUI, initPc, regResult, statusPromise,
                   timeoutPromise, interval, pollPending, retryPending>>

\* InitCall with the flag set again by a run that goes on to registration.
InitCallResetsFlag(k, sync) ==
    IF ~tauri \/ sync = "threw"
    THEN /\ isInitializing' = FALSE
         /\ forceShowUI' = [forceShowUI EXCEPT ![k] = ClearTimer(Timer("pending", ForceShowUIDelay))]
         /\ initPc' = [initPc EXCEPT ![k] = "done"]
         /\ regResult' = [regResult EXCEPT ![k] = IF tauri THEN "failed" ELSE "none"]
    ELSE /\ isInitializing' = TRUE
         /\ forceShowUI' = [forceShowUI EXCEPT ![k] = Timer("pending", ForceShowUIDelay)]
         /\ initPc' = [initPc EXCEPT ![k] = "registering"]
         /\ regResult' = regResult

\* InitCall without the Tauri runtime check.
InitCallNoProbe(k, sync) ==
    IF sync = "threw"
    THEN /\ isInitializing' = FALSE
         /\ forceShowUI' = [forceShowUI EXCEPT ![k] = ClearTimer(Timer("pending", ForceShowUIDelay))]
         /\ initPc' = [initPc EXCEPT ![k] = "done"]
         /\ regResult' = [regResult EXCEPT ![k] = "failed"]
    ELSE /\ isInitializing' = isInitializing
         /\ forceShowUI' = [forceShowUI EXCEPT ![k] = Timer("pending", ForceShowUIDelay)]
         /\ initPc' = [initPc EXCEPT ![k] = "registering"]
         /\ regResult' = regResult

\* init(), from its call to its first await, for effect run k, whose
\* forceShowUI timer the effect armed just before:
\*   - no Tauri runtime: setIsInitializing(false), clearTimeout, return
\*     (the finally block then repeats both);
\*   - initializeTauriListeners() throws synchronously (sync = "threw"): the
\*     outer catch logs it and the finally block runs;
\*   - otherwise init() is suspended on the registration promise.
InitCall(k, sync) ==
    IF ~tauri \/ sync = "threw"
    THEN /\ isInitializing' = FALSE
         /\ forceShowUI' = [forceShowUI EXCEPT ![k] = ClearTimer(Timer("pending", ForceShowUIDelay))]
         /\ initPc' = [initPc EXCEPT ![k] = "done"]
         /\ regResult' = [regResult EXCEPT ![k] = IF tauri THEN "failed" ELSE "none"]
    ELSE /\ isInitializing' = isInitializing
         /\ forceShowUI' = [forceShowUI EXCEPT ![k] = Timer("pending", ForceShowUIDelay)]
         /\ initPc' = [initPc EXCEPT ![k] = "registering"]
         /\ regResult' = regResult

\* An effect cleanup that clears nothing.
ClearedIntervalsNone == interval

\* The effect cleanup returned by the mounted run, if any:
\* clearInterval(interval).
ClearedIntervals ==
    IF mounted = 0
    THEN interval
    ELSE [interval EXCEPT ![mounted] = ClearTimer(interval[mounted])]

\* Start of a run without the cleanup of the run before it.
StartNoCleanup(sync) ==
    /\ renders > 0
    /\ nRuns = 0 \/ mounted # 0
    /\ nRuns < MaxRuns
    /\ LET k == nRuns + 1 IN
        /\ InitCall(k, sync)
        /\ interval' = [interval EXCEPT ![k] = Timer("pending", PollIntervalDelay)]
        /\ nRuns' = k
        /\ mounted' = k
    /\ unhandled' = {}
    /\ UNCHANGED bootVars
    /\ UNCHANGED <<tauri, backendStatus, statusPromise, timeoutPromise,
                   pollPending, retryPending>>

\* Start with the polling interval as short as the status timeout.
StartPollEarly(sync) ==
    /\ renders > 0
    /\ nRuns = 0 \/ mounted # 0
    /\ nRuns < MaxRuns
    /\ LET k == nRuns + 1 IN
        /\ InitCall(k, sync)
        /\ interval' = [ClearedIntervals EXCEPT ![k] = Timer("pending", StatusTimeoutDelay)]
        /\ nRuns' = k
        /\ mounted' = k
    /\ unhandled' = {}
    /\ UNCHANGED bootVars
    /\ UNCHANGED <<tauri, backendStatus, statusPromise, timeoutPromise,
                   pollPending, retryPending>>

\* One run of useEffect of the rendered App: on mount, or again while
\* mounted (React first runs the cleanup of the previous run, in the same
\* commit).  The effect body arms forceShowUI, calls init() and arms the
\* polling interval.
Start(sync) ==
    /\ renders > 0
    /\ nRuns = 0 \/ mounted # 0
    /\ nRuns < MaxRuns
    /\ LET k == nRuns + 1 IN
        /\ InitCall(k, sync)
        /\ interval' = [ClearedIntervals EXCEPT ![k] = Timer("pending", PollIntervalDelay)]
        /\ nRuns' = k
        /\ mounted' = k
    /\ unhandled' = {}
    /\ UNCHANGED bootVars
    /\ UNCHANGED <<tauri, backendStatus, statusPromise, timeoutPromise,
                   pollPending, retryPending>>

\* InitFinally without the clearTimeout.
InitFinallyNoClear(k) ==
    /\ forceShowUI' = forceShowUI
    /\ isInitializing' = FALSE
    /\ initPc' = [initPc EXCEPT ![k] = "done"]

\* The finally block of init() of run k: clearTimeout(forceShowUI), then
\* setIsInitializing(false).
InitFinally(k) ==
    /\ forceShowUI' = [forceShowUI EXCEPT ![k] = ClearTimer(forceShowUI[k])]
    /\ isInitializing' = FALSE
    /\ initPc' = [initPc EXCEPT ![k] = "done"]

\* The registration promise of run k resolved: init() resumes, issues the
\* status check, arms the 2000 ms timer and awaits the race.
RegistrationResolved(k) ==
    /\ initPc[k] = "registering"
    /\ regResult' = [regResult EXCEPT ![k] = "ok"]
    /\ statusPromise' = [statusPromise EXCEPT ![k] = "pending"]
    /\ timeoutPromise' = [timeoutPromise EXCEPT ![k] = Timer("pending", StatusTimeoutDelay)]
    /\ initPc' = [initPc EXCEPT ![k] = "racing"]
    /\ unhandled' = {}
    /\ UNCHANGED bootVars
    /\ UNCHANGED <<tauri, isInitializing, backendStatus, nRuns, mounted,
                   forceShowUI, interval, pollPending, retryPending>>

\* The registration promise of run k rejected: the outer catch logs the
\* error and the finally block runs; the inner try is skipped.
RegistrationRejected(k) ==
    /\ initPc[k] = "registering"
    /\ regResult' = [regResult EXCEPT ![k] = "failed"]
    /\ InitFinally(k)
    /\ unhandled' = {}
    /\ UNCHANGED bootVars
    /\ UNCHANGED <<tauri, backendStatus, nRuns, mounted, statusPromise,
                   timeoutPromise, interval, pollPending, retryPending>>

\* checkNexusStatus() settling with outcome o: the store records the result.
StoreStatus(o) == backendStatus' \in StatusAfter(o)

\* StatusSettle with init() not resumed by the check (it waits for the
\* timer alone).
StatusSettleNoResume(k, o) ==
    /\ statusPromise[k] = "pending"
    /\ statusPromise' = [statusPromise EXCEPT ![k] = "settled"]
    /\ StoreStatus(o)
    /\ unhandled' = {}
    /\ UNCHANGED bootVars
    /\ UNCHANGED <<tauri, isInitializing, nRuns, mounted, forceShowUI, initPc,
                   regResult, timeoutPromise, interval, pollPending,
                   retryPending>>

\* The status check issued by init() of run k settles with outcome o.  If
\* the race is still open it settles with the check (a rejection goes to the
\* inner catch) and init() runs to its finally block; if the race was
\* settled before, the settled race absorbs the result.
StatusSettle(k, o) ==
    /\ statusPromise[k] = "pending"
    /\ statusPromise' = [statusPromise EXCEPT ![k] = "settled"]
    /\ StoreStatus(o)
    /\ IF initPc[k] = "racing"
       THEN InitFinally(k)
       ELSE UNCHANGED <<forceShowUI, isInitializing, initPc>>
    /\ unhandled' = {}
    /\ UNCHANGED bootVars
    /\ UNCHANGED <<tauri, nRuns, mounted, regResult, timeoutPromise, interval,
                   pollPending, retryPending>>

\* StatusTimeoutFire with a callback that settles nothing.
StatusTimeoutFireNoReject(k) ==
    /\ Due(timeoutPromise[k])
    /\ timeoutPromise' = [timeoutPromise EXCEPT ![k] = Timer("off", 0)]
    /\ unhandled' = {}
    /\ UNCHANGED bootVars
    /\ UNCHANGED <<tauri, isInitializing, backendStatus, nRuns, mounted,
                   forceShowUI, initPc, regResult, statusPromise, interval,
                   pollPending, retryPending>>

\* StatusTimeoutFire whose rejection nothing handles once the race is
\* settled.
StatusTimeoutFireLateUnhandled(k) ==
    /\ Due(timeoutPromise[k])
    /\ timeoutPromise' = [timeoutPromise EXCEPT ![k] = Timer("off", 0)]
    /\ IF initPc[k] = "racing"
       THEN InitFinally(k) /\ unhandled' = {}
       ELSE /\ UNCHANGED <<forceShowUI, isInitializing, initPc>>
            /\ unhandled' = {"timeout"}
    /\ UNCHANGED bootVars
    /\ UNCHANGED <<tauri, backendStatus, nRuns, mounted, regResult,
                   statusPromise, interval, pollPending, retryPending>>

\* StatusTimeoutFire with the losing status check aborted.
StatusTimeoutFireCancelsCheck(k) ==
    /\ Due(timeoutPromise[k])
    /\ timeoutPromise' = [timeoutPromise EXCEPT ![k] = Timer("off", 0)]
    /\ statusPromise' = [statusPromise EXCEPT ![k] = "settled"]
    /\ IF initPc[k] = "racing"
       THEN InitFinally(k)
       ELSE UNCHANGED <<forceShowUI, isInitializing, initPc>>
    /\ unhandled' = {}
    /\ UNCHANGED bootVars
    /\ UNCHANGED <<tauri, backendStatus, nRuns, mounted, regResult,
                   interval, pollPending, retryPending>>

\* The 2000 ms timer of run k fires and rejects timeoutPromise.  If the race
\* is still open it rejects, the inner catch logs a warning and init() runs
\* to its finally block; otherwise the settled race absorbs the rejection.
StatusTimeoutFire(k) ==
    /\ Due(timeoutPromise[k])
    /\ timeoutPromise' = [timeoutPromise EXCEPT ![k] = Timer("off", 0)]
    /\ IF initPc[k] = "racing"
       THEN InitFinally(k)
       ELSE UNCHANGED <<forceShowUI, isInitializing, initPc>>
    /\ unhandled' = {}
    /\ UNCHANGED bootVars
    /\ UNCHANGED <<tauri, backendStatus, nRuns, mounted, regResult,
                   statusPromise, interval, pollPending, retryPending>>

\* ForceShowUIFire with a callback that only logs.
ForceShowUIFireNoReady(k) ==
    /\ Due(forceShowUI[k])
    /\ forceShowUI' = [forceShowUI EXCEPT ![k] = Timer("off", 0)]
    /\ unhandled' = {}
    /\ UNCHANGED bootVars
    /\ UNCHANGED <<tauri, isInitializing, backendStatus, nRuns, mounted, initPc,
                   regResult, statusPromise, timeoutPromise, interval,
                   pollPending, retryPending>>

\* ForceShowUIFire that also ends a suspended init().
ForceShowUIFireAbortsInit(k) ==
    /\ Due(forceShowUI[k])
    /\ forceShowUI' = [forceShowUI EXCEPT ![k] = Timer("off", 0)]
    /\ isInitializing' = FALSE
    /\ initPc' = [initPc EXCEPT ![k] = "done"]
    /\ unhandled' = {}
    /\ UNCHANGED bootVars
    /\ UNCHANGED <<tauri, backendStatus, nRuns, mounted, regResult,
                   statusPromise, timeoutPromise, interval, pollPending,
                   retryPending>>

\* The 3000 ms timer of run k fires: setIsInitializing(false).
ForceShowUIFire(k) ==
    /\ Due(forceShowUI[k])
    /\ forceShowUI' = [forceShowUI EXCEPT ![k] = Timer("off", 0)]
    /\ isInitializing' = FALSE
    /\ unhandled' = {}
    /\ UNCHANGED bootVars
    /\ UNCHANGED <<tauri, backendStatus, nRuns, mounted, initPc, regResult,
                   statusPromise, timeoutPromise, interval, pollPending,
                   retryPending>>

\* The interval of run k elapses: its callback invokes checkNexusStatus()
\* with a .catch handler, and the interval is armed again, whatever is
\* still in flight.
PollFire(k) ==
    /\ Due(interval[k])
    /\ interval' = [interval EXCEPT ![k] = Timer("pending", PollIntervalDelay)]
    /\ pollPending' = AddInflight(pollPending)
    /\ unhandled' = {}
    /\ UNCHANGED bootVars
    /\ UNCHANGED <<tauri, isInitializing, backendStatus, nRuns, mounted,
                   forceShowUI, initPc, regResult, statusPromise,
                   timeoutPromise, retryPending>>

\* A check invoked by the interval callback settles; a rejection is handled
\* by the .catch of the callback.
PollSettle(o) ==
    /\ pollPending > 0
    /\ pollPending' \in DropInflight(pollPending)
    /\ StoreStatus(o)
    /\ unhandled' = {}
    /\ UNCHANGED bootVars
    /\ UNCHANGED <<tauri, isInitializing, nRuns, mounted, forceShowUI, initPc,
                   regResult, statusPromise, timeoutPromise, interval,
                   retryPending>>

\* Render with the banner left out when the status is "error".
RenderNoErrorBanner(initializing, status) ==
    IF initializing
    THEN {"loading"}
    ELSE {"MainLayout"} \cup
         (IF status = "disconnected" THEN {"banner", "retry"} ELSE {})

\* What App returns: the loading screen while isInitializing, else
\* <MainLayout /> below the banner with its Retry button, the banner being
\* there when backend.status is 'disconnected' or 'error'.
Render(initializing, status) ==
    IF initializing
    THEN {"loading"}
    ELSE {"MainLayout"} \cup
         (IF status = "disconnected" \/ status = "error"
          THEN {"banner", "retry"}
          ELSE {})

\* The banner with the Retry button is rendered.
showConnectionWarning ==
    /\ mounted # 0
    /\ "retry" \in Render(isInitializing, backendStatus)

\* The user clicks the Retry button, onClick: checkNexusStatus() with no
\* handler attached; the button is never disabled.
RetryClick ==
    /\ showConnectionWarning
    /\ retryPending' = AddInflight(retryPending)
    /\ unhandled' = {}
    /\ UNCHANGED bootVars
    /\ UNCHANGED <<tauri, isInitializing, backendStatus, nRuns, mounted,
                   forceShowUI, initPc, regResult, statusPromise,
                   timeoutPromise, interval, pollPending>>

\* A check invoked by the Retry button settles; nothing handles a rejection.
RetrySettle(o) ==
    /\ retryPending > 0
    /\ retryPending' \in DropInflight(retryPending)
    /\ StoreStatus(o)
    /\ unhandled' = IF o = "rejected" THEN {"retry"} ELSE {}
    /\ UNCHANGED bootVars
    /\ UNCHANGED <<tauri, isInitializing, nRuns, mounted, forceShowUI, initPc,
                   regResult, statusPromise, timeoutPromise, interval,
                   pollPending>>

\* Unmount: the effect cleanup of the mounted run runs and no effect runs
\* again.
Cleanup ==
    /\ mounted # 0
    /\ interval' = ClearedIntervals
    /\ mounted' = 0
    /\ unhandled' = {}
    /\ UNCHANGED bootVars
    /\ UNCHANGED <<tauri, isInitializing, backendStatus, nRuns, forceShowUI,
                   initPc, regResult, statusPromise, timeoutPromise,
                   pollPending, retryPending>>

\* d milliseconds pass: allowed while some timer is pending and none of
\* them would be overrun.
Tick(d) ==
    /\ \E t \in AllTimers : Pending(t)
    /\ \A t \in AllTimers : Pending(t) => t.rem >= d
    /\ forceShowUI' = [k \in Runs |-> Elapse(forceShowUI[k], d)]
    /\ timeoutPromise' = [k \in Runs |-> Elapse(timeoutPromise[k], d)]
    /\ interval' = [k \in Runs |-> Elapse(interval[k], d)]
    /\ unhandled' = {}
    /\ UNCHANGED bootVars
    /\ UNCHANGED <<tauri, isInitializing, backendStatus, nRuns, mounted, initPc,
                   regResult, statusPromise, pollPending, retryPending>>

Next ==
    \/ Bootstrap
    \/ \E sync \in {"returned", "threw"} : Start(sync)
    \/ \E k \in Runs : RegistrationResolved(k)
    \/ \E k \in Runs : RegistrationRejected(k)
    \/ \E k \in Runs, o \in CheckOutcomes : StatusSettle(k, o)
    \/ \E k \in Runs : StatusTimeoutFire(k)
    \/ \E k \in Runs : ForceShowUIFire(k)
    \/ \E k \in Runs : PollFire(k)
    \/ \E o \in CheckOutcomes : PollSettle(o)
    \/ RetryClick
    \/ \E o \in CheckOutcomes : RetrySettle(o)
    \/ Cleanup
    \/ \E d \in TickSteps : Tick(d)

Spec == Init /\ [][Next]_vars

\* The event loop runs: time passes and a due timer callback is run.
LiveSpec ==
    /\ Spec
    /\ WF_vars(\E d \in TickSteps : Tick(d))
    /\ \A k \in Runs : WF_vars(ForceShowUIFire(k))
    /\ \A k \in Runs : WF_vars(StatusTimeoutFire(k))
    /\ \A k \in Runs : WF_vars(PollFire(k))

(***************************************************************************)
(* Properties                                                              *)
(***************************************************************************)

\* Effect run k has started.
Started(k) == k <= nRuns

\* Milliseconds since effect run k started, while its cleanup has not run and
\* its interval has not elapsed yet.
Elapsed(k) == PollIntervalDelay - interval[k].rem

TypeOK ==
    /\ rootElement \in BOOLEAN
    /\ bootPc \in {"load", "done"}
    /\ renders \in 0..1
    /\ rootErrors \in 0..1
    /\ tauri \in BOOLEAN
    /\ isInitializing \in BOOLEAN
    /\ backendStatus \in BackendStatusValues
    /\ nRuns \in 0..MaxRuns
    /\ mounted \in {0} \cup Runs
    /\ \A k \in Runs :
        /\ forceShowUI[k].state \in {"off", "pending"}
        /\ forceShowUI[k].rem \in 0..ForceShowUIDelay
        /\ timeoutPromise[k].state \in {"off", "pending"}
        /\ timeoutPromise[k].rem \in 0..StatusTimeoutDelay
        /\ interval[k].state \in {"off", "pending"}
        /\ interval[k].rem \in 0..PollIntervalDelay
        /\ initPc[k] \in {"idle", "registering", "racing", "done"}
        /\ regResult[k] \in {"none", "ok", "failed"}
        /\ statusPromise[k] \in {"none", "pending", "settled"}
    /\ pollPending \in 0..MaxInflight
    /\ retryPending \in 0..MaxInflight
    /\ unhandled \subseteq {"retry"}

\* C1: in every run the flag goes from Initializing to Ready, no later than
\* the firing of the 3000 ms timer: while the flag is still set, the timer
\* of every started effect run is still pending (none has fired or been
\* cleared without the flag being reset), and once an effect run has started
\* the flag is eventually reset.
C1_ReadyByDeadline ==
    /\ [](\A k \in Runs : (Started(k) /\ isInitializing) => Pending(forceShowUI[k]))
    /\ ((nRuns >= 1) ~> ~isInitializing)

\* C1 witness: Ready was forced by the timer alone: the only run is still
\* waiting for listener registration.
C1_Witness ==
    /\ nRuns = 1 /\ initPc[1] = "registering"
    /\ ~Pending(forceShowUI[1]) /\ ~isInitializing

\* C2: Ready is terminal: no step sets isInitializing back to true.
C2_ReadyIsTerminal == [][~isInitializing => ~isInitializing']_vars

\* C2 witness: Ready, after the effect ran again (cleanup, then a second run
\* whose init() is in progress with its own timer armed).
C2_Witness ==
    /\ ~isInitializing /\ nRuns = 2 /\ mounted = 2
    /\ initPc[2] = "registering" /\ Pending(forceShowUI[2])

\* C3 (as claimed): when listener registration throws or rejects, init()
\* goes on to the status check: whenever init() has ended after a failed
\* registration, its status query has been issued.
C3_FailedRegistrationStillChecks ==
    \A k \in Runs :
        (regResult[k] = "failed" /\ initPc[k] = "done") => statusPromise[k] # "none"

\* C4 (as claimed): without the Tauri runtime no status query is ever
\* attempted, by init() or by a later automatic invocation, and the status
\* stays unknown.
C4_NoQueryEver ==
    ~tauri => /\ backendStatus = "unknown"
              /\ pollPending = 0
              /\ \A k \in Runs : statusPromise[k] = "none"

\* C4 (amended): without the Tauri runtime every effect run leaves Ready at
\* once (init() has ended and the 3000 ms timer is cleared as soon as the run
\* has started), init() issues no status query and arms no 2000 ms timer, and
\* the status leaves unknown only by the settling of a check that the polling
\* interval invoked.
C4_NoTauriNoInitQuery ==
    /\ [](~tauri => \A k \in Runs :
            /\ Started(k) => (~isInitializing /\ initPc[k] = "done"
                                /\ ~Pending(forceShowUI[k]))
            /\ statusPromise[k] = "none"
            /\ ~Pending(timeoutPromise[k]))
    /\ [][(~tauri /\ backendStatus = "unknown" /\ backendStatus' # "unknown")
            => (pollPending > 0 /\ \E o \in CheckOutcomes : PollSettle(o))]_vars

\* C4 witness: no Tauri runtime, the first effect run has just run (no time
\* has passed) and the interface is Ready with the status unknown.
C4_Witness ==
    /\ ~tauri /\ nRuns = 1 /\ mounted = 1
    /\ Elapsed(1) = 0 /\ pollPending = 0
    /\ ~isInitializing /\ backendStatus = "unknown"

\* C5 (as claimed): once the status check of init() has completed in any way
\* (settled, or timed out after 2000 ms), the status is not unknown.
C5_StatusKnownAfterFirstCheck ==
    \A k \in Runs :
        (initPc[k] = "done" /\ statusPromise[k] # "none") => backendStatus # "unknown"

\* C6 (as claimed): no rejected status check is left unhandled, at any call
\* site.
C6_NoUnhandledRejection == unhandled = {}

\* C7: once init() has ended, by any path, the 3000 ms timer of its effect
\* run is not pending any more, so its callback cannot run afterwards.
C7_DeadlineCancelledAtInitEnd ==
    \A k \in Runs : initPc[k] = "done" => ~Pending(forceShowUI[k])

\* C7 witness: init() ended through the status check less than 3000 ms after
\* its effect run started, so the timer was still pending when it was
\* cleared.
C7_Witness ==
    /\ tauri /\ nRuns = 1 /\ mounted = 1 /\ pollPending = 0
    /\ Elapsed(1) = 1000
    /\ initPc[1] = "done" /\ statusPromise[1] = "settled"
    /\ ~Pending(forceShowUI[1])

\* C8: whatever is still in flight, a due interval of a run that is not
\* cleaned up has its callback ready to run, and it is left only by that
\* callback, which invokes checkNexusStatus (one more check unsettled, the
\* earlier ones untouched) and leaves the interval armed for another full
\* period, or by the cleanup of its run (unmount, or the effect running
\* again); time does not pass it by.  Once the cleanup of a run has run, its
\* interval callback never runs again.
C8_PollUntilCleanup ==
    /\ [](\A k \in Runs : Due(interval[k]) => ENABLED PollFire(k))
    /\ [][\A k \in Runs :
            /\ (Due(interval[k]) /\ interval'[k] # interval[k])
                  => \/ /\ interval'[k] = Timer("pending", PollIntervalDelay)
                        /\ pollPending' = AddInflight(pollPending)
                        /\ pollPending' > 0
                        /\ pollPending' >= pollPending
                     \/ (mounted = k /\ mounted' # k /\ ~Pending(interval'[k]))
            /\ (Started(k) /\ mounted # k) => ~PollFire(k)]_vars

\* C8 witness: the first run was cleaned up by the effect running again and
\* its interval is off; the interval of the second run is due while a check
\* invoked by an earlier callback is still unsettled.
C8_Witness ==
    /\ nRuns = 2 /\ mounted = 2
    /\ ~Pending(interval[1])
    /\ Due(interval[2])
    /\ pollPending > 0

\* C9: with the Tauri runtime present and a status check that does not
\* settle, the 2000 ms timer ends init() and sets Ready: the race is open
\* only while that timer is pending, an unsettled check whose timer is gone
\* means init() has ended and the flag is reset; and while the race is open
\* with the flag still set the 3000 ms timer is pending too, so Ready comes
\* no later than the earlier of the two expiries.
C9_ReadyByEarlierTimeout ==
    \A k \in Runs :
        /\ initPc[k] = "racing" => Pending(timeoutPromise[k])
        /\ (statusPromise[k] = "pending" /\ ~Pending(timeoutPromise[k]))
              => (initPc[k] = "done" /\ ~isInitializing)
        /\ (initPc[k] = "racing" /\ isInitializing) => Pending(forceShowUI[k])

\* C9 witness: the check of the only run is still unsettled and init() has
\* ended 2000 ms after the run started, 1000 ms before the deadline.
C9_Witness ==
    /\ tauri /\ nRuns = 1 /\ mounted = 1 /\ pollPending = 0
    /\ Elapsed(1) = StatusTimeoutDelay
    /\ statusPromise[1] = "pending" /\ ~Pending(timeoutPromise[1])
    /\ initPc[1] = "done" /\ ~isInitializing /\ backendStatus = "unknown"

\* C10: when the status query of init() succeeds while the race is open,
\* that very step ends init() and sets Ready with the status connected; the
\* 2000 ms timer is still pending (it did not have to fire).
C10_ReadyAtResolution ==
    [][\A k \in Runs :
        (initPc[k] = "racing" /\ StatusSettle(k, "ok"))
            => /\ initPc'[k] = "done"
               /\ ~isInitializing'
               /\ backendStatus' = "connected"
               /\ Pending(timeoutPromise'[k])]_vars

\* C10 witness: registration and the query both succeeded within 1000 ms of
\* the start: Ready and connected, with neither timer having fired.
C10_Witness ==
    /\ tauri /\ nRuns = 1 /\ mounted = 1 /\ pollPending = 0
    /\ Elapsed(1) = 1000
    /\ regResult[1] = "ok" /\ statusPromise[1] = "settled"
    /\ Pending(timeoutPromise[1])
    /\ initPc[1] = "done" /\ ~isInitializing /\ backendStatus = "connected"

\* C11: once main.tsx has run, a missing root element has left one error
\* logged and the UI tree never rendered (so no effect ever runs and no timer
\* is armed), and a root element that is there has had the UI tree rendered
\* into it exactly once, with no error.
C11_BootstrapOnceOrError ==
    /\ bootPc = "load" => (renders = 0 /\ rootErrors = 0 /\ nRuns = 0)
    /\ (bootPc = "done" /\ ~rootElement)
          => /\ renders = 0 /\ rootErrors = 1
             /\ nRuns = 0 /\ mounted = 0 /\ isInitializing
             /\ \A t \in AllTimers : ~Pending(t)
    /\ (bootPc = "done" /\ rootElement) => (renders = 1 /\ rootErrors = 0)

\* C11 witness: main.tsx has run without a root element.
C11_Witness == bootPc = "done" /\ ~rootElement /\ rootErrors = 1 /\ renders = 0

\* C12: while the component is mounted, a Ready state renders the main
\* interface whatever the backend status is, with the banner and its Retry
\* button there exactly when the status is disconnected or error, and an
\* Initializing state renders the loading indicator and nothing else.
C12_RenderByReadiness ==
    mounted # 0 =>
        /\ isInitializing => Render(isInitializing, backendStatus) = {"loading"}
        /\ ~isInitializing =>
              /\ "MainLayout" \in Render(isInitializing, backendStatus)
              /\ "loading" \notin Render(isInitializing, backendStatus)
              /\ "banner" \in Render(isInitializing, backendStatus)
                    <=> backendStatus \in {"disconnected", "error"}
              /\ "retry" \in Render(isInitializing, backendStatus)
                    <=> backendStatus \in {"disconnected", "error"}

\* C12 witness: Ready with the status "error" and the main interface rendered
\* under the banner.
C12_Witness ==
    /\ mounted # 0
    /\ ~isInitializing
    /\ backendStatus = "error"
    /\ Render(isInitializing, backendStatus) = {"MainLayout", "banner", "retry"}

\* C13: the effect running a second time leaves no more than a single run
\* would: at most one deadline timer is pending and at most one init() is
\* in progress.
C13_SecondStartIdempotent ==
    /\ Cardinality({k \in Runs : Pending(forceShowUI[k])}) <= 1
    /\ Cardinality({k \in Runs : initPc[k] \in {"registering", "racing"}}) <= 1

\* C14: the interval callback never invokes checkNexusStatus() in a state
\* where isInitializing is still true: with 10000 ms between polls and the
\* flag cleared within 3000 ms of the first effect run, every poll finds the
\* interface Ready.
C14_NoPollWhileInitializing ==
    [][\A k \in Runs : PollFire(k) => ~isInitializing]_vars

\* C14 witness: the first poll of the only run is in flight, 10000 ms after
\* the effect ran, and the interface is Ready.
C14_Witness ==
    /\ nRuns = 1
    /\ mounted = 1
    /\ pollPending = 1
    /\ Elapsed(1) = 0
    /\ ~isInitializing
    /\ \A k \in Runs : ~Pending(forceShowUI[k])

\* C15: a status check of init() that is unsettled when the 2000 ms timer or
\* the 3000 ms timer fires stays unsettled (it is not cancelled), and when a
\* check settles in a Ready state the store takes its result and the
\* interface stays Ready.
C15_LateCheckLandsReadyStays ==
    [][\A k \in Runs :
          statusPromise[k] = "pending" =>
              /\ (StatusTimeoutFire(k) \/ ForceShowUIFire(k))
                    => statusPromise'[k] = "pending"
              /\ (~isInitializing /\ statusPromise'[k] = "settled") =>
                    \A o \in CheckOutcomes :
                        StatusSettle(k, o)
                           => (~isInitializing' /\ backendStatus' \in StatusAfter(o))
      ]_vars

\* C15 witness: the 3000 ms timer of the only run has made the interface
\* Ready while the status check of init() is in flight and the race open.
C15_Witness ==
    /\ nRuns = 1
    /\ ~isInitializing
    /\ ~Pending(forceShowUI[1])
    /\ Elapsed(1) = ForceShowUIDelay
    /\ initPc[1] = "racing"
    /\ statusPromise[1] = "pending"
    /\ Pending(timeoutPromise[1])

\* C16: the 3000 ms timer firing leaves init() of its run where it is (it is
\* not aborted); an init() resumed by the registration after that still
\* issues the status check and opens the race; and the finally block of an
\* init() whose 3000 ms timer is no longer pending leaves the interface
\* Ready and changes neither a timer of another kind nor the effect runs.
C16_DeadlineDoesNotAbortInit ==
    [][\A k \in Runs :
          /\ ForceShowUIFire(k)
                => /\ initPc' = initPc
                   /\ statusPromise' = statusPromise
                   /\ timeoutPromise' = timeoutPromise
          /\ (~Pending(forceShowUI[k]) /\ RegistrationResolved(k))
                => /\ initPc'[k] = "racing"
                   /\ statusPromise'[k] = "pending"
                   /\ ~isInitializing'
          /\ (/\ ~isInitializing
              /\ ~Pending(forceShowUI[k])
              /\ initPc[k] \in {"registering", "racing"}
              /\ initPc'[k] = "done")
                => /\ ~isInitializing'
                   /\ forceShowUI' = forceShowUI
                   /\ interval' = interval
                   /\ nRuns' = nRuns
                   /\ mounted' = mounted
                   /\ unhandled' = {}
      ]_vars

\* C16 witness: the registration of the only run resolved 4000 ms after the
\* effect ran, 1000 ms after the 3000 ms timer fired; init() issued the
\* status check, the check settled the race and init() has ended, Ready.
C16_Witness ==
    /\ nRuns = 1
    /\ pollPending = 0
    /\ Elapsed(1) = ForceShowUIDelay + 1000
    /\ regResult[1] = "ok"
    /\ initPc[1] = "done"
    /\ statusPromise[1] = "settled"
    /\ timeoutPromise[1] = Timer("pending", StatusTimeoutDelay)
    /\ ~Pending(forceShowUI[1])
    /\ ~isInitializing

\* C17: whatever effect runs and cleanups have happened, at most one
\* polling interval is armed, and it is the one of the run whose cleanup has
\* not run yet.
C17_AtMostOnePollTimer ==
    /\ Cardinality({k \in Runs : Pending(interval[k])}) <= 1
    /\ \A k \in Runs : Pending(interval[k]) => mounted = k

\* C17 witness: the effect has run twice; the interval of the first run was
\* cleared by its cleanup and the interval of the second run is armed.
C17_Witness ==
    /\ nRuns = 2
    /\ mounted = 2
    /\ ~Pending(interval[1])
    /\ Pending(interval[2])

\* C18: a status check that settles the open race leaves the 2000 ms timer
\* of its run armed as it was, and that timer firing after its race is
\* settled changes neither isInitializing nor the backend status nor init(),
\* and no rejection is left unhandled.
C18_LateTimeoutIsInert ==
    [][\A k \in Runs :
          (\/ statusPromise'[k] # statusPromise[k]
           \/ timeoutPromise'[k] # timeoutPromise[k]) =>
              /\ \A o \in CheckOutcomes :
                    (initPc[k] = "racing" /\ StatusSettle(k, o))
                       => timeoutPromise' = timeoutPromise
              /\ (initPc[k] # "racing" /\ StatusTimeoutFire(k))
                    => /\ isInitializing' = isInitializing
                       /\ backendStatus' = backendStatus
                       /\ initPc' = initPc
                       /\ forceShowUI' = forceShowUI
                       /\ statusPromise' = statusPromise
                       /\ unhandled' = {}
      ]_vars

\* C18 witness: the status check of the only run settled the race, init()
\* has ended, and the 2000 ms timer it left armed is now due.
C18_Witness ==
    /\ nRuns = 1
    /\ initPc[1] = "done"
    /\ statusPromise[1] = "settled"
    /\ Due(timeoutPromise[1])
    /\ ~isInitializing

\* C19: once the cleanup of an effect run has run, nothing that run armed
\* acts any more: its 3000 ms timer does not fire (it sets no readiness) and
\* its init() does not resume to issue a status check.
C19_NothingActsAfterTeardown ==
    [][\A k \in Runs :
          (Started(k) /\ mounted # k)
             => (~ForceShowUIFire(k) /\ ~RegistrationResolved(k))
      ]_vars

====
